---------------------------- MODULE Spec2Model ----------------------------
(***************************************************************************)
(* Model of src/main.py: the Heyzine flipbook reader updater.               *)
(*                                                                         *)
(*   fetch_emails_from_api          GET a JSON list of emails, keep the    *)
(*                                  @gmail.com ones                        *)
(*   create_payload_with_new_emails drop the old flipbook[readers] fields  *)
(*                                  of a form-encoded body, append new ones*)
(*   update_heyzine_flipbook        POST the rewritten body                *)
(*   main                           fetch, then update                     *)
(*                                                                         *)
(* A Python str is a sequence of code points (integers); every string of   *)
(* the model is a sequence of Unicode scalar values, which is what         *)
(* parse_qsl and a JSON text made of scalar values give.  Console output   *)
(* (print) is not part of the state.                                       *)
(***************************************************************************)
EXTENDS Integers, Sequences, FiniteSets, TLC

(***************************************************************************)
(* Strings.                                                                *)
(***************************************************************************)
\* The printable ASCII characters, code points 32..126 in order ("GRAVE"
\* stands for the grave accent, code point 96, which a TLA+ string cannot hold).
Printable ==
    << " ", "!", "\"", "#", "$", "%", "&", "'", "(", ")", "*", "+", ",", "-", ".", "/",
       "0", "1", "2", "3", "4", "5", "6", "7", "8", "9", ":", ";", "<", "=", ">", "?",
       "@", "A", "B", "C", "D", "E", "F", "G", "H", "I", "J", "K", "L", "M", "N", "O",
       "P", "Q", "R", "S", "T", "U", "V", "W", "X", "Y", "Z", "[", "\\", "]", "^", "_",
       "GRAVE", "a", "b", "c", "d", "e", "f", "g", "h", "i", "j", "k", "l", "m", "n", "o",
       "p", "q", "r", "s", "t", "u", "v", "w", "x", "y", "z", "{", "|", "}", "~" >>

\* ord(c) of a printable ASCII character.
Ord(c) == 31 + (CHOOSE i \in 1..Len(Printable) : Printable[i] = c)

\* The str whose characters are the printable ASCII characters of t.
Str(t) == [i \in 1..Len(t) |-> Ord(t[i])]

\* The characters the code and urllib.parse name.
SPACE == Ord(" ")
PERCENT == Ord("%")
AMPERSAND == Ord("&")
EQUALS == Ord("=")
PLUS == Ord("+")
UPPER_A == Ord("A")
UPPER_Z == Ord("Z")
UPPER_F == Ord("F")
LOWER_A == Ord("a")
LOWER_Z == Ord("z")
LOWER_F == Ord("f")
DIGIT_0 == Ord("0")
DIGIT_9 == Ord("9")
UNDERSCORE == Ord("_")
PERIOD == Ord(".")
HYPHEN == Ord("-")
TILDE == Ord("~")

\* U+FFFD, what bytes.decode(errors='replace') puts for an undecodable byte.
REPLACEMENT == <<65533>>

\* ''.join(parts): the elements of the parts, in order.  The parts are laid
\* out as the rows of a table as wide as the longest of them, and the
\* cells that hold an element are read row by row.
Concat(parts) ==
    IF parts = <<>> THEN <<>>
    ELSE LET n     == Len(parts)
             lens  == {Len(parts[i]) : i \in 1..n}
             width == CHOOSE w \in lens : \A v \in lens : v <= w
             row(p) == ((p - 1) \div width) + 1
             col(p) == ((p - 1) % width) + 1
             filled(p) == col(p) <= Len(parts[row(p)])
             cells == SelectSeq([p \in 1..(n * width) |-> p], filled)
         IN  [k \in 1..Len(cells) |-> parts[row(cells[k])][col(cells[k])]]

\* sep.join(parts)
Join(parts, sep) ==
    Concat([i \in 1..(2 * Len(parts) - 1) |->
               IF i % 2 = 1 THEN parts[(i + 1) \div 2] ELSE sep])

\* The least member of a non-empty set of indices.
First(at) == CHOOSE j \in at : \A k \in at : j <= k

\* The index of the first occurrence of character c in s at or after i, 0
\* when there is none.
FindFrom(s, c, i) ==
    LET at == {j \in i..Len(s) : s[j] = c}
    IN  IF at = {} THEN 0 ELSE First(at)

\* s.find(c) + 1
Find(s, c) == FindFrom(s, c, 1)

\* The k-th least member of a set of indices, 1 <= k <= Cardinality(at).
Nth(at, k) == CHOOSE j \in at : Cardinality({i \in at : i < j}) = k - 1

\* The parts of s between the indices of at, which are left out: one part
\* more than there are indices.
SplitAt(s, at) ==
    LET n == Cardinality(at)
        cut(k) == IF k = 0 THEN 0 ELSE IF k = n + 1 THEN Len(s) + 1 ELSE Nth(at, k)
    IN  [k \in 1..(n + 1) |-> SubSeq(s, cut(k - 1) + 1, cut(k) - 1)]

\* s.split(c) for a one-character separator: always at least one part.
Split(s, c) == SplitAt(s, {j \in 1..Len(s) : s[j] = c})

\* s.startswith(prefix)
StartsWith(s, prefix) ==
    /\ Len(prefix) <= Len(s)
    /\ SubSeq(s, 1, Len(prefix)) = prefix

\* s.endswith(suffix)
EndsWith(s, suffix) ==
    /\ Len(suffix) <= Len(s)
    /\ SubSeq(s, Len(s) - Len(suffix) + 1, Len(s)) = suffix

\* sub in s, for strings
Contains(s, sub) ==
    \E i \in 0..(Len(s) - Len(sub)) : SubSeq(s, i + 1, i + Len(sub)) = sub

\* str.lower(): A..Z go to a..z.  No other character of the model has a
\* lowercase form that differs from it.
Lower(s) ==
    [i \in 1..Len(s) |-> IF s[i] >= UPPER_A /\ s[i] <= UPPER_Z THEN s[i] + 32 ELSE s[i]]

\* s.replace(a, b) for single characters
Replace(s, a, b) == [i \in 1..Len(s) |-> IF s[i] = a THEN b ELSE s[i]]

RECURSIVE Digits(_)
\* str(n) for n >= 0, as f'{i}' formats an index
Digits(n) ==
    IF n < 10 THEN <<DIGIT_0 + n>>
    ELSE Digits(n \div 10) \o <<DIGIT_0 + (n % 10)>>

(***************************************************************************)
(* UTF-8, as str.encode('utf-8') and bytes.decode('utf-8', 'replace').     *)
(***************************************************************************)
\* The UTF-8 bytes of one scalar value.
Utf8Char(cp) ==
    IF cp < 128 THEN <<cp>>
    ELSE IF cp < 2048 THEN <<192 + (cp \div 64), 128 + (cp % 64)>>
    ELSE IF cp < 65536
         THEN <<224 + (cp \div 4096), 128 + ((cp \div 64) % 64), 128 + (cp % 64)>>
    ELSE <<240 + (cp \div 262144), 128 + ((cp \div 4096) % 64),
           128 + ((cp \div 64) % 64), 128 + (cp % 64)>>

IsCont(b) == b >= 128 /\ b <= 191

\* The range a second byte must lie in after lead byte b0 (3- and 4-byte forms).
SecondOk(b0, b1) ==
    IF b0 = 224 THEN b1 >= 160 /\ b1 <= 191
    ELSE IF b0 = 237 THEN b1 >= 128 /\ b1 <= 159
    ELSE IF b0 = 240 THEN b1 >= 144 /\ b1 <= 191
    ELSE IF b0 = 244 THEN b1 >= 128 /\ b1 <= 143
    ELSE IsCont(b1)

\* bs.decode('utf-8', 'replace'): an ill-formed sequence becomes one U+FFFD
\* for its longest well-formed prefix, and decoding resumes after it.  A
\* sequence takes only continuation bytes after its first byte, so a byte
\* that is not a continuation byte always begins one, and a continuation
\* byte begins one (ill-formed) unless one of the three bytes before it
\* begins a sequence that reaches it.
Utf8Decode(bs) ==
    IF bs = <<>> THEN <<>>
    ELSE
        LET n == Len(bs)
            \* bytes the lead byte at i announces (0: not a lead byte)
            need(i) == IF bs[i] < 128 THEN 1
                       ELSE IF bs[i] >= 194 /\ bs[i] <= 223 THEN 2
                       ELSE IF bs[i] >= 224 /\ bs[i] <= 239 THEN 3
                       ELSE IF bs[i] >= 240 /\ bs[i] <= 244 THEN 4
                       ELSE 0
            ok2(i) == /\ i + 1 <= n
                      /\ IF need(i) = 2 THEN IsCont(bs[i + 1]) ELSE SecondOk(bs[i], bs[i + 1])
            ok3(i) == ok2(i) /\ i + 2 <= n /\ IsCont(bs[i + 2])
            ok4(i) == ok3(i) /\ i + 3 <= n /\ IsCont(bs[i + 3])
            \* the bytes the sequence beginning at i takes
            taken(i) == IF need(i) <= 1 THEN 1
                        ELSE IF need(i) >= 4 /\ ok4(i) THEN 4
                        ELSE IF need(i) >= 3 /\ ok3(i) THEN 3
                        ELSE IF ok2(i) THEN 2
                        ELSE 1
            \* byte i is taken by a sequence that begins before it
            inside(i) == \E j \in (i - 3)..(i - 1) :
                             j >= 1 /\ need(j) >= 2 /\ j + taken(j) > i
            \* what the sequence beginning at i decodes to
            decoded(i) ==
                IF need(i) = 1 THEN <<bs[i]>>
                ELSE IF need(i) = 0 \/ taken(i) < need(i) THEN REPLACEMENT
                ELSE IF need(i) = 2
                     THEN <<(bs[i] - 192) * 64 + (bs[i + 1] - 128)>>
                ELSE IF need(i) = 3
                     THEN <<(bs[i] - 224) * 4096 + (bs[i + 1] - 128) * 64
                            + (bs[i + 2] - 128)>>
                ELSE <<(bs[i] - 240) * 262144 + (bs[i + 1] - 128) * 4096
                       + (bs[i + 2] - 128) * 64 + (bs[i + 3] - 128)>>
        IN  Concat([i \in 1..n |-> IF inside(i) THEN <<>> ELSE decoded(i)])

(***************************************************************************)
(* urllib.parse: quote_plus, urlencode, unquote, parse_qsl.                *)
(***************************************************************************)
\* urllib.parse._ALWAYS_SAFE: letters, digits and "_.-~".
AlwaysSafe(c) ==
    \/ c >= UPPER_A /\ c <= UPPER_Z
    \/ c >= LOWER_A /\ c <= LOWER_Z
    \/ c >= DIGIT_0 /\ c <= DIGIT_9
    \/ c \in {UNDERSCORE, PERIOD, HYPHEN, TILDE}

HexDigits == Str(<<"0","1","2","3","4","5","6","7","8","9","A","B","C","D","E","F">>)

\* '%XX' of one byte, upper-case hex
PercentByte(b) == <<PERCENT, HexDigits[(b \div 16) + 1], HexDigits[(b % 16) + 1]>>

\* The '%XX' of each byte of bs, in order.
PercentBytes(bs) == Concat([i \in 1..Len(bs) |-> PercentByte(bs[i])])

\* quote_plus(string, safe=''): safe characters are kept, a space becomes
\* '+', every other character becomes the %XX of its UTF-8 bytes.
quote_plus(string) ==
    IF string = <<>> THEN string
    ELSE Concat([i \in 1..Len(string) |->
                    LET c == string[i]
                    IN  IF AlwaysSafe(c) THEN <<c>>
                        ELSE IF c = SPACE THEN <<PLUS>>
                        ELSE PercentBytes(Utf8Char(c))])

\* urlencode(query) of a list of (key, value) pairs of str
urlencode(query) ==
    Join([i \in 1..Len(query) |->
             quote_plus(query[i][1]) \o <<EQUALS>> \o quote_plus(query[i][2])],
         <<AMPERSAND>>)

\* The value of a hex digit, either case; -1 when c is not one.
HexVal(c) ==
    IF c >= DIGIT_0 /\ c <= DIGIT_9 THEN c - DIGIT_0
    ELSE IF c >= UPPER_A /\ c <= UPPER_F THEN c - UPPER_A + 10
    ELSE IF c >= LOWER_A /\ c <= LOWER_F THEN c - LOWER_A + 10
    ELSE -1

\* unquote_to_bytes over a run of ASCII characters: a '%' followed by two
\* hex digits is one byte, any other character is itself.  The two digits
\* of an escape are not '%', so no escape begins inside another.
unquote_to_bytes(run) ==
    IF run = <<>> THEN <<>>
    ELSE
        LET n == Len(run)
            escape(i) == /\ run[i] = PERCENT
                         /\ i + 2 <= n
                         /\ HexVal(run[i + 1]) >= 0
                         /\ HexVal(run[i + 2]) >= 0
            digit(i)  == (i > 1 /\ escape(i - 1)) \/ (i > 2 /\ escape(i - 2))
        IN  Concat([i \in 1..n |->
                       IF digit(i) THEN <<>>
                       ELSE IF escape(i)
                            THEN <<16 * HexVal(run[i + 1]) + HexVal(run[i + 2])>>
                       ELSE <<run[i]>>])

\* unquote(string, encoding='utf-8', errors='replace'): the string is cut
\* into its runs of ASCII characters and the non-ASCII characters between
\* them; each run is unquoted to bytes and UTF-8-decoded, each non-ASCII
\* character is kept as it is.  A string without '%' is returned as it is.
unquote(string) ==
    IF \A j \in 1..Len(string) : string[j] # PERCENT THEN string
    ELSE
        LET at   == {j \in 1..Len(string) : string[j] >= 128}
            runs == SplitAt(string, at)
        IN  Concat([k \in 1..Len(runs) |->
                       Utf8Decode(unquote_to_bytes(runs[k]))
                       \o (IF k < Len(runs) THEN <<string[Nth(at, k)]>> ELSE <<>>)])

\* One name_value of parse_qsl: a part without '=' gets an empty value, and
\* name and value are read with '+' as a space and then unquoted.
ParsePair(name_value) ==
    LET eq == Find(name_value, EQUALS)
        nv == IF eq = 0 THEN <<name_value, <<>>>>
              ELSE <<SubSeq(name_value, 1, eq - 1),
                     SubSeq(name_value, eq + 1, Len(name_value))>>
    IN  <<unquote(Replace(nv[1], PLUS, SPACE)), unquote(Replace(nv[2], PLUS, SPACE))>>

\* The loop of parse_qsl(qs, keep_blank_values=True) over qs.split('&'):
\* an empty part is skipped, every other part gives one pair.
ParsePairs(query_args) ==
    Concat([i \in 1..Len(query_args) |->
               IF query_args[i] = <<>> THEN <<>> ELSE <<ParsePair(query_args[i])>>])

\* parse_qsl(qs, keep_blank_values=True)
parse_qsl(qs) == IF qs = <<>> THEN <<>> ELSE ParsePairs(Split(qs, AMPERSAND))


(***************************************************************************)
(* Bounds of the model.                                                    *)
(***************************************************************************)
\* The longest 'emails' list of a GET response and the longest email list
\* handed to update_heyzine_flipbook or create_payload_with_new_emails.
MaxEmails == 2

\* The most '&'-separated parts of an original payload handed to
\* create_payload_with_new_emails directly.
MaxFields == 2

\* The sequences over S of length 0..n
SeqsUpTo(S, n) == UNION {[1..k -> S] : k \in 0..n}

(***************************************************************************)
(* JSON values, by their Python type after response.json().                *)
(***************************************************************************)
\* An element of a list: a str with its characters, or a value of another type.
EStr(s) == [t |-> "str", s |-> s]
ENum == [t |-> "int", s |-> <<>>]

\* A value under the key 'emails': a list with its elements, or another type.
VList(items) == [t |-> "list", items |-> items]
VOther(type) == [t |-> type, items |-> <<>>]

\* A top-level value: a dict (has_emails: whether it has the key 'emails',
\* emails: the value under it), a list with its elements, a str with its
\* characters, or an int, a bool or None.
JDict(has, v) ==
    [t |-> "dict", has_emails |-> has, emails |-> v, items |-> <<>>, s |-> <<>>]
JList(items) ==
    [t |-> "list", has_emails |-> FALSE, emails |-> VOther("NoneType"),
     items |-> items, s |-> <<>>]
JStr(s) ==
    [t |-> "str", has_emails |-> FALSE, emails |-> VOther("NoneType"),
     items |-> <<>>, s |-> s]
JScalar(type) ==
    [t |-> type, has_emails |-> FALSE, emails |-> VOther("NoneType"),
     items |-> <<>>, s |-> <<>>]

(***************************************************************************)
(* The outcome of an HTTP request.                                         *)
(***************************************************************************)
\* requests.get raised a RequestException before any response.
GetRaised(e) ==
    [raised |-> e, status |-> 0, is_json |-> FALSE, data |-> JScalar("NoneType")]
\* A response whose body is not JSON.
GetText(status) ==
    [raised |-> "none", status |-> status, is_json |-> FALSE,
     data |-> JScalar("NoneType")]
\* A response whose body parses to data.
GetJson(status, data) ==
    [raised |-> "none", status |-> status, is_json |-> TRUE, data |-> data]
\* No request made yet.
NoResponse == GetRaised("pending")

\* The exceptions of requests.exceptions.RequestException a request raises
\* without a response.
RequestExceptions == {"ConnectionError", "Timeout"}

\* Response.raise_for_status() raises HTTPError for 400 <= status < 600.
RaisesForStatus(status) == status >= 400 /\ status < 600

\* str(e) of the HTTPError of raise_for_status
HTTPErrorText(status) ==
    ToString(status) \o (IF status < 500 THEN " Client Error" ELSE " Server Error")

(***************************************************************************)
(* fetch_emails_from_api, from the outcome of requests.get on.             *)
(***************************************************************************)
Returns(v) == [exc |-> "none", value |-> v]
Raises(e) == [exc |-> e, value |-> <<>>]

\* The key 'emails' and the suffix '@gmail.com'.
EMAILS_KEY == Str(<<"e","m","a","i","l","s">>)
GMAIL_SUFFIX == Str(<<"@","g","m","a","i","l",".","c","o","m">>)

\* 'emails' in data: a key of a dict, an element of a list, a substring of a
\* str.  (Asked only of these three types.)
InData(data) ==
    IF data.t = "dict" THEN data.has_emails
    ELSE IF data.t = "list"
         THEN \E i \in 1..Len(data.items) : data.items[i] = EStr(EMAILS_KEY)
    ELSE Contains(data.s, EMAILS_KEY)

\* Mutant of IsGmail: the test without .lower().
IsGmail_CaseSensitive(email) == email.t = "str" /\ EndsWith(email.s, GMAIL_SUFFIX)

\* isinstance(email, str) and email.lower().endswith('@gmail.com')
IsGmail(email) == email.t = "str" /\ EndsWith(Lower(email.s), GMAIL_SUFFIX)

RECURSIVE GmailAddresses(_)
\* The loop over emails: the str elements that pass the test, in order.
GmailAddresses(emails) ==
    IF emails = <<>> THEN <<>>
    ELSE (IF IsGmail(emails[1]) THEN <<emails[1].s>> ELSE <<>>)
         \o GmailAddresses(Tail(emails))

\* What fetch_emails_from_api returns, or the exception that leaves it.
fetch_emails_from_api(response) ==
    IF response.raised # "none" THEN Returns(<<>>)
    ELSE IF RaisesForStatus(response.status) THEN Returns(<<>>)
    ELSE IF ~response.is_json THEN Returns(<<>>)
    ELSE LET data == response.data
         IN  IF data.t \notin {"dict", "list", "str"} THEN Raises("TypeError")
             ELSE IF ~InData(data) THEN Returns(<<>>)
             ELSE IF data.t # "dict" THEN Raises("TypeError")
             ELSE IF data.emails.t # "list" THEN Returns(<<>>)
             ELSE Returns(GmailAddresses(data.emails.items))

(***************************************************************************)
(* create_payload_with_new_emails                                          *)
(***************************************************************************)
\* 'flipbook[readers]', and the pieces of f'flipbook[readers][{i}][email]',
\* f'flipbook[readers][{i}][type]', f'flipbook[readers][{i}][password]'.
READERS == Str(<<"f","l","i","p","b","o","o","k","[","r","e","a","d","e","r","s","]">>)
READER_OPEN == Str(<<"f","l","i","p","b","o","o","k","[","r","e","a","d","e","r","s","]","[">>)
EMAIL_CLOSE == Str(<<"]","[","e","m","a","i","l","]">>)
TYPE_CLOSE == Str(<<"]","[","t","y","p","e","]">>)
PASSWORD_CLOSE == Str(<<"]","[","p","a","s","s","w","o","r","d","]">>)
GOOGLE == Str(<<"g","o","o","g","l","e">>)

\* Mutant of ReaderFields: the index counted from 1.
ReaderFields_OneBased(i, email) ==
    << <<READER_OPEN \o Digits(i + 1) \o EMAIL_CLOSE, email>>,
       <<READER_OPEN \o Digits(i + 1) \o TYPE_CLOSE, GOOGLE>>,
       <<READER_OPEN \o Digits(i + 1) \o PASSWORD_CLOSE, <<>>>> >>

\* The three fields of reader i (0-based): email, type, password.
ReaderFields(i, email) ==
    << <<READER_OPEN \o Digits(i) \o EMAIL_CLOSE, email>>,
       <<READER_OPEN \o Digits(i) \o TYPE_CLOSE, GOOGLE>>,
       <<READER_OPEN \o Digits(i) \o PASSWORD_CLOSE, <<>>>> >>

RECURSIVE NewReaders(_, _)
\* The fields appended for new_emails, the first of them having index i.
NewReaders(new_emails, i) ==
    IF new_emails = <<>> THEN <<>>
    ELSE ReaderFields(i, new_emails[1]) \o NewReaders(Tail(new_emails), i + 1)

\* Mutant of Kept: the old reader fields are not removed.
Kept_Everything(field) == TRUE

\* Mutant of Kept: the key compared with the prefix instead of startswith,
\* which leaves the indexed reader fields in place.
Kept_UnlessEqual(field) == field[1] # READERS

\* k.startswith('flipbook[readers]') is false
Kept(field) == ~StartsWith(field[1], READERS)

\* Mutant of create_payload_with_new_emails: parse_qsl without
\* keep_blank_values=True, which leaves out the fields with an empty value.
HasValue(field) == field[2] # <<>>
create_payload_dropping_blanks(original_data_raw, new_emails) ==
    LET parsed_data   == SelectSeq(parse_qsl(original_data_raw), HasValue)
        filtered_data == SelectSeq(parsed_data, Kept)
    IN  urlencode(filtered_data \o NewReaders(new_emails, 0))

create_payload_with_new_emails(original_data_raw, new_emails) ==
    LET parsed_data   == parse_qsl(original_data_raw)
        filtered_data == SelectSeq(parsed_data, Kept)
    IN  urlencode(filtered_data \o NewReaders(new_emails, 0))
(***************************************************************************)
(* update_heyzine_flipbook, from the outcome of requests.post on.          *)
(***************************************************************************)
\* A POST that raised before any response, and a POST response: its status,
\* its body as text, and whether that text is JSON.
PostRaised(e) == [raised |-> e, status |-> 0, text |-> "", is_json |-> FALSE]
PostResponse(status, text, json) ==
    [raised |-> "none", status |-> status, text |-> text, is_json |-> json]
\* No POST made yet.
NoPostResponse == PostRaised("pending")

\* response.json() of a JSON body, and response.text: the data of a result.
ParsedJson(text) == [type |-> "json", of |-> text]
RawText(text) == [type |-> "str", of |-> text]

\* The dict the try block of update_heyzine_flipbook returns.
PostResult(response) ==
    IF response.raised # "none"
    THEN [success |-> FALSE, message |-> response.raised]
    ELSE IF RaisesForStatus(response.status)
         THEN [success |-> FALSE, message |-> HTTPErrorText(response.status)]
    ELSE IF response.is_json
         THEN [success |-> TRUE, data |-> ParsedJson(response.text),
               status_code |-> response.status]
    ELSE [success |-> TRUE, data |-> RawText(response.text),
          status_code |-> response.status]

\* The dict returned for an empty email list.
NoEmailsResult == [success |-> FALSE, message |-> "No emails provided"]

(***************************************************************************)
(* The inputs.                                                             *)
(***************************************************************************)
\* API_URL answers with these statuses ...
GetStatuses == {200, 301, 404, 503}

\* ... and these elements in its 'emails' list: accepted addresses (lower
\* case, mixed case, one with characters that need quoting and U+00E9),
\* rejected addresses, and a value that is no str:
\*   a@gmail.com, B@Gmail.COM, 'x y+&=' + U+00E9 + '@gmail.com',
\*   b@yahoo.com, a@gmail.com.au, 42
GetElements ==
    { EStr(Str(<<"a","@","g","m","a","i","l",".","c","o","m">>)), EStr(Str(<<"B","@","G","m","a","i","l",".","C","O","M">>)),
      EStr(Str(<<"x"," ","y","+","&","=">>) \o <<233>> \o Str(<<"@","g","m","a","i","l",".","c","o","m">>)),
      EStr(Str(<<"b","@","y","a","h","o","o",".","c","o","m">>)), EStr(Str(<<"a","@","g","m","a","i","l",".","c","o","m",".","a","u">>)), ENum }

\* The JSON bodies: an 'emails' list, and every other shape.
GetBodies ==
    {JDict(TRUE, VList(l)) : l \in SeqsUpTo(GetElements, MaxEmails)}
    \cup { JDict(FALSE, VOther("NoneType")),
           JDict(TRUE, VOther("str")), JDict(TRUE, VOther("NoneType")),
           JDict(TRUE, VOther("dict")), JDict(TRUE, VOther("int")),
           JList(<<EStr(Str(<<"a","@","g","m","a","i","l",".","c","o","m">>))>>), JList(<<EStr(Str(<<"e","m","a","i","l","s">>))>>),
           JStr(Str(<<"a","@","g","m","a","i","l",".","c","o","m">>)), JStr(Str(<<"n","o"," ","e","m","a","i","l","s">>)),
           JScalar("int"), JScalar("bool"), JScalar("NoneType") }

\* heyzine_url answers with these statuses and bodies.
PostStatuses == {101, 200, 201, 304, 404, 500}
PostBodies ==
    { [text |-> "{\"success\":true}", is_json |-> TRUE],
      [text |-> "<html>login</html>", is_json |-> FALSE] }

\* heyzine_data_raw of main, abridged: its first two fields (one blank), a
\* value with '+' and %3A, the three reader fields, and three later fields:
\*   flipbook%5Bid_upload%5D=14954245&flipbook%5Bquality%5D=
\*   &flipbook%5Blast_access_date%5D=2025-08-31+16%3A12%3A08
\*   &flipbook%5Breaders%5D%5B0%5D%5Bemail%5D=hi%40gmail.com
\*   &flipbook%5Breaders%5D%5B0%5D%5Btype%5D=google
\*   &flipbook%5Breaders%5D%5B0%5D%5Bpassword%5D=
\*   &flipbook%5Blayers%5D=&adminKey=&bookmarks=%5B%5D
heyzine_data_raw ==
    Str(<<"f","l","i","p","b","o","o","k","%","5","B","i","d","_","u","p","l","o","a","d","%","5","D","=","1","4","9","5","4","2","4","5","&","f","l","i","p","b","o","o","k","%","5","B","q","u","a","l","i","t","y","%","5","D","=">>)
    \o Str(<<"&","f","l","i","p","b","o","o","k","%","5","B","l","a","s","t","_","a","c","c","e","s","s","_","d","a","t","e","%","5","D","=","2","0","2","5","-","0","8","-","3","1","+","1","6","%","3","A","1","2","%","3","A","0","8">>)
    \o Str(<<"&","f","l","i","p","b","o","o","k","%","5","B","r","e","a","d","e","r","s","%","5","D","%","5","B","0","%","5","D","%","5","B","e","m","a","i","l","%","5","D","=","h","i","%","4","0","g","m","a","i","l",".","c","o","m">>)
    \o Str(<<"&","f","l","i","p","b","o","o","k","%","5","B","r","e","a","d","e","r","s","%","5","D","%","5","B","0","%","5","D","%","5","B","t","y","p","e","%","5","D","=","g","o","o","g","l","e">>)
    \o Str(<<"&","f","l","i","p","b","o","o","k","%","5","B","r","e","a","d","e","r","s","%","5","D","%","5","B","0","%","5","D","%","5","B","p","a","s","s","w","o","r","d","%","5","D","=">>)
    \o Str(<<"&","f","l","i","p","b","o","o","k","%","5","B","l","a","y","e","r","s","%","5","D","=","&","a","d","m","i","n","K","e","y","=","&","b","o","o","k","m","a","r","k","s","=","%","5","B","%","5","D">>)

\* The parts original payloads are made of: a duplicated key, a blank
\* value, reader fields (quoted, unquoted, and quoted in the prefix itself),
\* a key that only resembles the prefix, a part with no '=', an empty part,
\* a bad escape, and bytes that are and are not UTF-8:
\*   a=1   a=   n   (empty)
\*   flipbook%5Breaders%5D%5B0%5D%5Bemail%5D=old%40gmail.com
\*   %66lipbook[readers][1][type]=google
\*   flipbook%5Breader%5D=p+q%26%3D%25
\*   k%zz=%C3%A9%FF
RawParts ==
    { Str(<<"a","=","1">>), Str(<<"a","=">>), Str(<<"n">>), <<>>,
      Str(<<"f","l","i","p","b","o","o","k","%","5","B","r","e","a","d","e","r","s","%","5","D","%","5","B","0","%","5","D","%","5","B","e","m","a","i","l","%","5","D","=","o","l","d","%","4","0","g","m","a","i","l",".","c","o","m">>),
      Str(<<"%","6","6","l","i","p","b","o","o","k","[","r","e","a","d","e","r","s","]","[","1","]","[","t","y","p","e","]","=","g","o","o","g","l","e">>),
      Str(<<"f","l","i","p","b","o","o","k","%","5","B","r","e","a","d","e","r","%","5","D","=","p","+","q","%","2","6","%","3","D","%","2","5">>),
      Str(<<"k","%","z","z","=","%","C","3","%","A","9","%","F","F">>) }

\* The original payloads handed to create_payload_with_new_emails directly.
Originals == {Join(parts, Str(<<"&">>)) : parts \in SeqsUpTo(RawParts, MaxFields)}

\* The addresses handed to update_heyzine_flipbook and
\* create_payload_with_new_emails directly: a@gmail.com, b@yahoo.com, and
\* 'x y+&=' + U+00E9 + '@gmail.com'.
Addresses ==
    { Str(<<"a","@","g","m","a","i","l",".","c","o","m">>), Str(<<"b","@","y","a","h","o","o",".","c","o","m">>), Str(<<"x"," ","y","+","&","=">>) \o <<233>> \o Str(<<"@","g","m","a","i","l",".","c","o","m">>) }
EmailLists == SeqsUpTo(Addresses, MaxEmails)

\* The payloads handed to update_heyzine_flipbook directly: that of main, and
\*   a=1&flipbook[readers][0][email]=old%40gmail.com&b=
UpdatePayloads ==
    { heyzine_data_raw, Str(<<"a","=","1","&","f","l","i","p","b","o","o","k","[","r","e","a","d","e","r","s","]","[","0","]","[","e","m","a","i","l","]","=","o","l","d","%","4","0","g","m","a","i","l",".","c","o","m","&","b","=">>) }

\* No payload built yet (no str: -1 is no code point).
NoPayload == <<-1>>
\* No result returned yet.
NoResult == [none |-> TRUE]

(***************************************************************************)
(* The state.                                                              *)
(***************************************************************************)
VARIABLES
    entry,          \* the function called: "main", "update" or "rewrite"
    pc,             \* where the call stands
    get_response,   \* what requests.get gave (NoResponse before)
    emails,         \* emails_to_add of main, emails of update_heyzine_flipbook,
                    \* new_emails of create_payload_with_new_emails
    data_raw,       \* heyzine_data_raw / data_raw / original_data_raw
    final_payload,  \* what create_payload_with_new_emails returned
    posted,         \* the bodies handed to requests.post, in order
    post_response,  \* what requests.post gave (NoPostResponse before)
    result,         \* what update_heyzine_flipbook returned
    exc,            \* the exception that left the called function, or "none"
    n_get,          \* calls of requests.get
    again_emails,   \* new_emails of a second call of
                    \* create_payload_with_new_emails, on the first one's output
    again_payload,  \* what the second call returned
    trace           \* the stages begun and ended, in order

vars == <<entry, pc, get_response, emails, data_raw, final_payload, posted,
          post_response, result, exc, n_get, again_emails, again_payload,
          trace>>

\* calls of requests.post
n_post == Len(posted)

(***************************************************************************)
(* main                                                                    *)
(***************************************************************************)
\* main at line 223: calls fetch_emails_from_api, which issues the GET.
MainCallsFetch ==
    /\ pc = "main_start"
    /\ n_get' = n_get + 1
    /\ trace' = Append(trace, "fetch_begin")
    /\ pc' = "get_in_flight"
    /\ UNCHANGED <<again_emails, again_payload, entry, get_response, emails, data_raw, final_payload, posted,
                   post_response, result, exc>>

\* The rest of fetch_emails_from_api once requests.get has ended with
\* response: it returns a list to main, or an exception leaves it and main.
FetchEnds(response) ==
    LET r == fetch_emails_from_api(response)
    IN  /\ get_response' = response
        /\ IF r.exc = "none"
           THEN /\ emails' = r.value
                /\ pc' = "fetch_returned"
                /\ exc' = exc
                /\ trace' = Append(trace, "fetch_end")
           ELSE /\ emails' = emails
                /\ pc' = "crashed"
                /\ exc' = r.exc
                /\ trace' = trace
        /\ UNCHANGED <<again_emails, again_payload, entry, data_raw, final_payload, posted, post_response,
                       result, n_get>>

\* requests.get raises without a response.
GetRaises ==
    /\ pc = "get_in_flight"
    /\ \E e \in RequestExceptions : FetchEnds(GetRaised(e))

\* requests.get returns a response.
GetResponds ==
    /\ pc = "get_in_flight"
    /\ \E status \in GetStatuses :
          \/ FetchEnds(GetText(status))
          \/ \E data \in GetBodies : FetchEnds(GetJson(status, data))

\* main at line 225: returns when the list is empty, else calls
\* update_heyzine_flipbook with it.
MainChecksEmails ==
    /\ pc = "fetch_returned"
    /\ pc' = IF emails = <<>> THEN "done" ELSE "update_entry"
    /\ UNCHANGED <<again_emails, again_payload, entry, get_response, emails, data_raw, final_payload, posted,
                   post_response, result, exc, n_get, trace>>

\* main at line 238: reports the result and returns.
MainReports ==
    /\ entry = "main"
    /\ pc = "update_returned"
    /\ pc' = "done"
    /\ UNCHANGED <<again_emails, again_payload, entry, get_response, emails, data_raw, final_payload, posted,
                   post_response, result, exc, n_get, trace>>

(***************************************************************************)
(* update_heyzine_flipbook                                                 *)
(***************************************************************************)
\* Mutant of UpdateChecksEmails: no test for an empty list.
UpdateChecksEmails_NoGuard ==
    /\ pc = "update_entry"
    /\ pc' = "build_payload"
    /\ UNCHANGED <<again_emails, again_payload, entry, get_response, emails, data_raw, final_payload, posted,
                   post_response, result, exc, n_get, trace>>

\* Line 140: an empty list is answered at once.
UpdateChecksEmails ==
    /\ pc = "update_entry"
    /\ IF emails = <<>>
       THEN /\ result' = NoEmailsResult
            /\ pc' = "update_returned"
       ELSE /\ result' = result
            /\ pc' = "build_payload"
    /\ UNCHANGED <<again_emails, again_payload, entry, get_response, emails, data_raw, final_payload, posted,
                   post_response, exc, n_get, trace>>

\* Mutant of UpdateBuildsPayload: the payload is not built before the POST.
UpdateBuildsPayload_Late ==
    /\ pc = "build_payload"
    /\ pc' = "post_ready"
    /\ UNCHANGED <<again_emails, again_payload, entry, get_response, emails, data_raw, final_payload, posted,
                   post_response, result, exc, n_get, trace>>

\* Line 151: the new payload is built.
UpdateBuildsPayload ==
    /\ pc = "build_payload"
    /\ final_payload' = create_payload_with_new_emails(data_raw, emails)
    /\ trace' = trace \o <<"rewrite_begin", "rewrite_end">>
    /\ pc' = "post_ready"
    /\ UNCHANGED <<again_emails, again_payload, entry, get_response, emails, data_raw, posted, post_response,
                   result, exc, n_get>>

\* Line 156: the POST is issued with the new payload as its body.
UpdateIssuesPost ==
    /\ pc = "post_ready"
    /\ posted' = Append(posted, final_payload)
    /\ trace' = Append(trace, "submit_begin")
    /\ pc' = "post_in_flight"
    /\ UNCHANGED <<again_emails, again_payload, entry, get_response, emails, data_raw, final_payload,
                   post_response, result, exc, n_get>>

\* Mutant of UpdateEnds: a failed POST is sent again.
UpdateEnds_Retrying(response) ==
    /\ post_response' = response
    /\ IF PostResult(response).success
       THEN /\ result' = PostResult(response)
            /\ trace' = Append(trace, "submit_end")
            /\ pc' = "update_returned"
       ELSE /\ result' = result
            /\ trace' = trace
            /\ pc' = "post_ready"
    /\ UNCHANGED <<again_emails, again_payload, entry, get_response, emails, data_raw, final_payload, posted,
                   exc, n_get>>

\* The rest of update_heyzine_flipbook once requests.post has ended.
UpdateEnds(response) ==
    /\ post_response' = response
    /\ result' = PostResult(response)
    /\ trace' = Append(trace, "submit_end")
    /\ pc' = "update_returned"
    /\ UNCHANGED <<again_emails, again_payload, entry, get_response, emails, data_raw, final_payload, posted,
                   exc, n_get>>

\* requests.post raises without a response.
PostRaises ==
    /\ pc = "post_in_flight"
    /\ \E e \in RequestExceptions : UpdateEnds(PostRaised(e))

\* requests.post returns a response.
PostResponds ==
    /\ pc = "post_in_flight"
    /\ \E status \in PostStatuses, body \in PostBodies :
          UpdateEnds(PostResponse(status, body.text, body.is_json))

(***************************************************************************)
(* create_payload_with_new_emails, called on its own.                      *)
(***************************************************************************)
CreatePayload ==
    /\ pc = "rewrite_entry"
    /\ final_payload' = create_payload_with_new_emails(data_raw, emails)
    /\ trace' = trace \o <<"rewrite_begin", "rewrite_end">>
    /\ pc' = "rewrite_returned"
    /\ UNCHANGED <<again_emails, again_payload, entry, get_response, emails, data_raw, posted, post_response,
                   result, exc, n_get>>

\* create_payload_with_new_emails called again, on the payload the first
\* call returned and with any email list.
CreatePayloadAgain ==
    /\ pc = "rewrite_returned"
    /\ \E e2 \in EmailLists :
          /\ again_emails' = e2
          /\ again_payload' = create_payload_with_new_emails(final_payload, e2)
    /\ trace' = trace \o <<"rewrite_begin", "rewrite_end">>
    /\ pc' = "rewrite_again_returned"
    /\ UNCHANGED <<entry, get_response, emails, data_raw, final_payload, posted,
                   post_response, result, exc, n_get>>

(***************************************************************************)
(* Specifications.                                                         *)
(***************************************************************************)
InitCommon ==
    /\ get_response = NoResponse
    /\ final_payload = NoPayload
    /\ posted = <<>>
    /\ post_response = NoPostResponse
    /\ result = NoResult
    /\ exc = "none"
    /\ n_get = 0
    /\ again_emails = <<>>
    /\ again_payload = NoPayload
    /\ trace = <<>>

\* One run of main.
Init ==
    /\ InitCommon
    /\ entry = "main"
    /\ pc = "main_start"
    /\ emails = <<>>
    /\ data_raw = heyzine_data_raw

Next ==
    \/ MainCallsFetch
    \/ GetRaises
    \/ GetResponds
    \/ MainChecksEmails
    \/ UpdateChecksEmails
    \/ UpdateBuildsPayload
    \/ UpdateIssuesPost
    \/ PostRaises
    \/ PostResponds
    \/ MainReports

Spec == Init /\ [][Next]_vars

\* One call of update_heyzine_flipbook with any payload and email list.
InitUpdate ==
    /\ InitCommon
    /\ entry = "update"
    /\ pc = "update_entry"
    /\ emails \in EmailLists
    /\ data_raw \in UpdatePayloads

NextUpdate ==
    \/ UpdateChecksEmails
    \/ UpdateBuildsPayload
    \/ UpdateIssuesPost
    \/ PostRaises
    \/ PostResponds

SpecUpdate == InitUpdate /\ [][NextUpdate]_vars

\* One call of create_payload_with_new_emails with any payload and email list.
InitRewrite ==
    /\ InitCommon
    /\ entry = "rewrite"
    /\ pc = "rewrite_entry"
    /\ emails \in EmailLists
    /\ data_raw \in Originals

NextRewrite == CreatePayload

SpecRewrite == InitRewrite /\ [][NextRewrite]_vars

\* The payload made of every part of RawParts, in a fixed order:
\*   a=1&flipbook%5Breaders%5D%5B0%5D%5Bemail%5D=old%40gmail.com&a=&
\*   &%66lipbook[readers][1][type]=google&n
\*   &flipbook%5Breader%5D=p+q%26%3D%25&k%zz=%C3%A9%FF
AllParts ==
    Join(<< Str(<<"a","=","1">>), Str(<<"f","l","i","p","b","o","o","k","%","5","B","r","e","a","d","e","r","s","%","5","D","%","5","B","0","%","5","D","%","5","B","e","m","a","i","l","%","5","D","=","o","l","d","%","4","0","g","m","a","i","l",".","c","o","m">>),
            Str(<<"a","=">>), <<>>, Str(<<"%","6","6","l","i","p","b","o","o","k","[","r","e","a","d","e","r","s","]","[","1","]","[","t","y","p","e","]","=","g","o","o","g","l","e">>), Str(<<"n">>),
            Str(<<"f","l","i","p","b","o","o","k","%","5","B","r","e","a","d","e","r","%","5","D","=","p","+","q","%","2","6","%","3","D","%","2","5">>), Str(<<"k","%","z","z","=","%","C","3","%","A","9","%","F","F">>) >>, Str(<<"&">>))

\* Two calls of create_payload_with_new_emails in a row, the second on the
\* output of the first, with any two email lists.
InitRewriteTwice ==
    /\ InitCommon
    /\ entry = "rewrite"
    /\ pc = "rewrite_entry"
    /\ emails \in EmailLists
    /\ data_raw \in UpdatePayloads \cup {AllParts}

NextRewriteTwice ==
    \/ CreatePayload
    \/ CreatePayloadAgain

SpecRewriteTwice == InitRewriteTwice /\ [][NextRewriteTwice]_vars

(***************************************************************************)
(* Properties.                                                             *)
(***************************************************************************)
\* The reader-group prefix, and the strings the claims name.
ReaderPrefix == Str(<<"f","l","i","p","b","o","o","k","[","r","e","a","d","e","r","s","]">>)
ReaderIndexOpen == Str(<<"f","l","i","p","b","o","o","k","[","r","e","a","d","e","r","s","]","[">>)
BracketPair == Str(<<"]","[">>)
BracketClose == Str(<<"]">>)
EmailName == Str(<<"e","m","a","i","l">>)
TypeName == Str(<<"t","y","p","e">>)
PasswordName == Str(<<"p","a","s","s","w","o","r","d">>)
GoogleType == Str(<<"g","o","o","g","l","e">>)
GmailSuffix == Str(<<"@","g","m","a","i","l",".","c","o","m">>)
EmailFieldEnd == Str(<<"[","e","m","a","i","l","]">>)

\* A field whose key starts with the reader-group prefix.
IsReaderField(field) == StartsWith(field[1], ReaderPrefix)
NotReaderField(field) == ~IsReaderField(field)

\* The decoded fields of a form-encoded body.
Decoded(body) == parse_qsl(body)

\* The decoded fields of the original payload and of the rewritten one.
OriginalFields == Decoded(data_raw)
RewrittenFields == Decoded(final_payload)

\* C1: once create_payload_with_new_emails has returned, the decoded fields
\* of its output without the reader-prefixed ones are the decoded fields of
\* the original without the reader-prefixed ones: the same fields, with the
\* same values (empty ones included), as often and in the same order.
C1_KeptFieldsPreserved ==
    pc = "rewrite_returned" =>
        SelectSeq(RewrittenFields, NotReaderField)
            = SelectSeq(OriginalFields, NotReaderField)

\* C1 happens: a payload with a reader field and a kept field with an empty
\* value has been rewritten with a non-empty email list.
C1_Witness ==
    /\ pc = "rewrite_returned"
    /\ emails # <<>>
    /\ \E i \in 1..Len(OriginalFields) : IsReaderField(OriginalFields[i])
    /\ \E i \in 1..Len(OriginalFields) :
          NotReaderField(OriginalFields[i]) /\ OriginalFields[i][2] = <<>>

\* The key of reader i's field named name.
ReaderKey(i, name) == ReaderIndexOpen \o Digits(i) \o BracketPair \o name \o BracketClose

\* C2: once create_payload_with_new_emails has returned for N emails, the
\* reader-prefixed fields of the decoded output are its last 3*N fields, and
\* they are, for i = 0..N-1 in this order, [readers][i][email] = the i-th
\* email, [readers][i][type] = "google", [readers][i][password] = "".
C2_ReadersReplaced ==
    pc = "rewrite_returned" =>
        LET out == RewrittenFields
            N   == Len(emails)
            k   == Len(out) - 3 * N
        IN  /\ k >= 0
            /\ \A j \in 1..Len(out) : IsReaderField(out[j]) <=> j > k
            /\ \A i \in 0..(N - 1) :
                  /\ out[k + 3 * i + 1] = <<ReaderKey(i, EmailName), emails[i + 1]>>
                  /\ out[k + 3 * i + 2] = <<ReaderKey(i, TypeName), GoogleType>>
                  /\ out[k + 3 * i + 3] = <<ReaderKey(i, PasswordName), <<>>>>

\* C2 happens: a payload with a reader field and a kept field after it has
\* been rewritten with the longest email list.
C2_Witness ==
    /\ pc = "rewrite_returned"
    /\ Len(emails) = MaxEmails
    /\ \E i, j \in 1..Len(OriginalFields) :
          i < j /\ IsReaderField(OriginalFields[i]) /\ NotReaderField(OriginalFields[j])

\* The GET has ended with a response that fetch_emails_from_api reads as JSON.
FetchReadJson ==
    /\ entry = "main"
    /\ pc \notin {"main_start", "get_in_flight"}
    /\ get_response.raised = "none"
    /\ ~(get_response.status >= 400 /\ get_response.status < 600)
    /\ get_response.is_json

\* The JSON is an object whose 'emails' is a list.
HasEmailsList ==
    /\ get_response.data.t = "dict"
    /\ get_response.data.has_emails
    /\ get_response.data.emails.t = "list"

\* A str whose lowercase form ends with '@gmail.com'.
Accepted(e) == e.t = "str" /\ EndsWith(Lower(e.s), GmailSuffix)

\* The accepted elements of the response's list, as strings, in list order.
AcceptedOfResponse ==
    LET acc == SelectSeq(get_response.data.emails.items, Accepted)
    IN  [i \in 1..Len(acc) |-> acc[i].s]

\* C3: for a JSON response whose 'emails' is a list, fetch_emails_from_api
\* returns the str elements whose lowercase form ends with '@gmail.com',
\* unchanged and in their order, and nothing else.
C3_FetchFiltersGmail ==
    (FetchReadJson /\ HasEmailsList) =>
        /\ exc = "none"
        /\ emails = AcceptedOfResponse

\* C3 happens: a list with an accepted mixed-case address, a rejected
\* address and a non-string, of which one address was returned.
C3_Witness ==
    /\ FetchReadJson
    /\ HasEmailsList
    /\ LET items == get_response.data.emails.items
       IN  /\ \E i \in 1..Len(items) : items[i].t # "str"
           /\ \E i \in 1..Len(items) : Accepted(items[i]) /\ Lower(items[i].s) # items[i].s
    /\ Len(emails) = 1

\* The GET has ended with a 2xx response whose body is JSON.
GetSucceededWithJson ==
    /\ FetchReadJson
    /\ get_response.status >= 200
    /\ get_response.status < 300

\* C4: after a successful GET whose JSON body is anything but an object with
\* an 'emails' list, fetch_emails_from_api has returned the empty list.
C4_OtherShapesGiveEmpty ==
    (GetSucceededWithJson /\ ~HasEmailsList) =>
        /\ exc = "none"
        /\ pc # "crashed"
        /\ emails = <<>>

\* C5: update_heyzine_flipbook called with an empty list builds no payload,
\* issues no POST, and returns {success: False, message: 'No emails provided'}.
C5_EmptyListShortCircuits ==
    (entry = "update" /\ emails = <<>>) =>
        /\ final_payload = NoPayload
        /\ posted = <<>>
        /\ post_response = [raised |-> "pending", status |-> 0, text |-> "",
                            is_json |-> FALSE]
        /\ pc \in {"update_entry", "update_returned"}
        /\ pc = "update_returned" =>
              result = [success |-> FALSE, message |-> "No emails provided"]

\* C5 happens: update_heyzine_flipbook has returned for an empty list.
C5_Witness ==
    /\ entry = "update"
    /\ emails = <<>>
    /\ pc = "update_returned"
    /\ "success" \in DOMAIN result

\* update_heyzine_flipbook has returned after a POST.
ReturnedAfterPost ==
    /\ pc \in {"update_returned", "done"}
    /\ post_response.raised # "pending"

\* C6: after a POST, success is true exactly for a 2xx status: then the
\* result is {success, status_code, data} with the parsed JSON or else the
\* text; after an exception or any other status it is {success: False,
\* message} without data.
C6_SuccessIff2xx ==
    ReturnedAfterPost =>
        LET r == post_response
        IN  IF r.raised = "none" /\ r.status >= 200 /\ r.status < 300
            THEN result = [success |-> TRUE, status_code |-> r.status,
                           data |-> [type |-> IF r.is_json THEN "json" ELSE "str",
                                     of |-> r.text]]
            ELSE /\ DOMAIN result = {"success", "message"}
                 /\ ~result.success

\* The stages of a run, in order.
StageOrder ==
    <<"fetch_begin", "fetch_end", "rewrite_begin", "rewrite_end",
      "submit_begin", "submit_end">>

\* C7: the stages of a run of main begin and end in the order fetch,
\* rewrite, submit, each after the one before it has ended; a POST has been
\* issued only with the GET ended and the payload rewritten; and after a
\* fetch that failed or gave no address no payload is built and no POST issued.
C7_StagesInOrder ==
    /\ Len(trace) <= Len(StageOrder)
    /\ trace = SubSeq(StageOrder, 1, Len(trace))
    /\ posted # <<>> =>
          /\ get_response.raised # "pending"
          /\ emails # <<>>
          /\ final_payload # <<-1>>
    /\ (pc \notin {"main_start", "get_in_flight"} /\ emails = <<>>) =>
          /\ final_payload = <<-1>>
          /\ posted = <<>>

\* C7 happens: a run of main has gone through all three stages.
C7_Witness ==
    /\ entry = "main"
    /\ pc = "done"
    /\ trace = StageOrder

\* C8: no exception leaves a stage of main.
C8_MainEndsNormally ==
    /\ exc = "none"
    /\ pc # "crashed"

\* A request that failed: an exception, or a 4xx or 5xx status.
Failed(response) ==
    /\ response.raised # "pending"
    /\ \/ response.raised # "none"
       \/ response.status >= 400 /\ response.status < 600

\* C9: a run of main issues at most one GET and at most one POST; after a
\* failed GET the fetch has returned the empty list and nothing is sent, and
\* after a failed POST the update has returned a failure.
C9_NoRetry ==
    /\ n_get <= 1
    /\ Len(posted) <= 1
    /\ Failed(get_response) =>
          /\ emails = <<>>
          /\ posted = <<>>
          /\ pc \in {"fetch_returned", "done"}
    /\ Failed(post_response) =>
          /\ pc \in {"update_returned", "done"}
          /\ ~result.success

\* C9 happens: a run of main has ended after a failed POST, sent once.
C9_Witness ==
    /\ entry = "main"
    /\ pc = "done"
    /\ Failed(post_response)
    /\ n_get = 1
    /\ Len(posted) = 1

\* A reader field that holds an address.
IsReaderEmail(field) == IsReaderField(field) /\ EndsWith(field[1], EmailFieldEnd)

\* The addresses of the reader fields of a body, in order.
ReaderEmails(body) ==
    LET fs == SelectSeq(Decoded(body), IsReaderEmail)
    IN  [i \in 1..Len(fs) |-> fs[i][2]]

\* C10: the reader addresses of a body main has posted are the list the
\* fetch of that run returned, which is the accepted str elements of the GET
\* response's 'emails' list in their order; the body has no other reader
\* fields than the three of each of them.
C10_OnlyFetchedGranted ==
    (entry = "main" /\ posted # <<>>) =>
        /\ FetchReadJson
        /\ HasEmailsList
        /\ emails = AcceptedOfResponse
        /\ \A i \in 1..Len(posted) :
              /\ ReaderEmails(posted[i]) = emails
              /\ Len(SelectSeq(Decoded(posted[i]), IsReaderField)) = 3 * Len(emails)

\* C10 happens: main has posted after a response that held a rejected
\* address, a non-string and an accepted address that needs quoting.
C10_Witness ==
    /\ entry = "main"
    /\ posted # <<>>
    /\ HasEmailsList
    /\ \E i \in 1..Len(get_response.data.emails.items) :
          ~Accepted(get_response.data.emails.items[i])
    /\ \E i \in 1..Len(emails) : \E j \in 1..Len(emails[i]) : emails[i][j] = AMPERSAND

\* C11: create_payload_with_new_emails replaces the readers: the decoded
\* fields of rewrite(rewrite(p, e1), e2) are the decoded fields of
\* rewrite(p, e2), whatever e1 was; with e2 = e1 the second call gives the
\* decoded fields of the first.
C11_RewriteReplaces ==
    pc = "rewrite_again_returned" =>
        /\ Decoded(again_payload)
              = Decoded(create_payload_with_new_emails(data_raw, again_emails))
        /\ again_emails = emails => Decoded(again_payload) = RewrittenFields

\* C11 happens: a payload with old reader fields was rewritten with a
\* non-empty list and its output rewritten with a different, shorter list.
C11_Witness ==
    /\ pc = "rewrite_again_returned"
    /\ \E i \in 1..Len(OriginalFields) : IsReaderField(OriginalFields[i])
    /\ emails # <<>>
    /\ again_emails # emails
    /\ Len(again_emails) < Len(emails)

\* C11 happens with the same list twice.
C11_SameListReached ==
    /\ pc = "rewrite_again_returned"
    /\ emails # <<>>
    /\ again_emails = emails

=============================================================================
